---------------------------- MODULE Spec2Model ----------------------------
(***************************************************************************)
(* Model of src/src/naive_bayes.py: the NaiveBayes classifier.             *)
(*                                                                         *)
(* Numbers.  The code computes in floating point; the model computes in    *)
(* exact rational arithmetic.  A rational is a pair <<n, d>> in lowest     *)
(* terms; <<0, 0>> stands for NaN (0/0) and <<1, 0>> for +inf (x/0), the   *)
(* two values torch's true division yields for a zero divisor.  Rounding,  *)
(* overflow and underflow of float32 are not modelled.                     *)
(*                                                                         *)
(* Logarithms.  A log-posterior y is represented by its antilogarithm      *)
(* x = exp(y): torch.log is strictly increasing, so the order of the       *)
(* entries (hence arg-max and its ties) is the order of the antilogs;      *)
(* log(0) = -inf is the antilog <<0, 1>>, a sum of logs is a product of    *)
(* antilogs, and softmax(y)[i] = x[i] / (x[1] + ... + x[n]).               *)
(***************************************************************************)
EXTENDS Integers, Sequences, FiniteSets, TLC

VARIABLES class_priors, conditional_probabilities, vocab_size, last

vars == <<class_priors, conditional_probabilities, vocab_size, last>>

-----------------------------------------------------------------------------
(* Bounds of the explored inputs.                                          *)

\* Lifecycle (Spec): training sets of at most this many examples.
MaxExamples == 1
\* Estimators (SpecEst): training sets of at most this many examples.
EstMaxExamples == 3

\* Word counts, class labels and smoothing constants.  The lifecycle smooths
\* (delta > 0); the estimators are also run without smoothing (delta = 0).
Counts == {0, 1}
ClassLabels == {0, 2}
Deltas == {1, 2}
EstClassLabels == {0, 1, 3}
EstDeltas == {0, 1, 2}

-----------------------------------------------------------------------------
(* Python's None and a field that holds a value.                           *)

None == [set |-> FALSE]
Some(v) == [set |-> TRUE, val |-> v]

EmptyDict == [k \in {} |-> 0]

-----------------------------------------------------------------------------
(* Exact arithmetic standing for torch's float arithmetic.                 *)

NaN == <<0, 0>>
Inf == <<1, 0>>

RECURSIVE GCD(_, _)
GCD(a, b) == IF b = 0 THEN a ELSE GCD(b, a % b)

\* n / d for naturals n and d, as true division computes it.
Norm(n, d) ==
    IF d = 0 THEN (IF n = 0 THEN NaN ELSE Inf)
    ELSE LET g == GCD(n, d) IN <<n \div g, d \div g>>

IsFinite(a) == a[2] # 0

RatAdd(a, b) ==
    IF a = NaN \/ b = NaN THEN NaN
    ELSE IF ~IsFinite(a) \/ ~IsFinite(b) THEN Inf
    ELSE Norm(a[1] * b[2] + b[1] * a[2], a[2] * b[2])

RatMul(a, b) ==
    IF a = NaN \/ b = NaN THEN NaN
    ELSE IF ~IsFinite(a) \/ ~IsFinite(b)
         THEN (IF a[1] = 0 \/ b[1] = 0 THEN NaN ELSE Inf)
    ELSE Norm(a[1] * b[1], a[2] * b[2])

\* a < b for finite a and b.
RatLess(a, b) == a[1] * b[2] < b[1] * a[2]

RECURSIVE RatPow(_, _)
RatPow(a, k) == IF k = 0 THEN <<1, 1>> ELSE RatMul(a, RatPow(a, k - 1))

RECURSIVE SumSeq(_, _)
\* row[1] + ... + row[n]
SumSeq(row, n) == IF n = 0 THEN 0 ELSE SumSeq(row, n - 1) + row[n]

\* features[indx].sum()
RowSum(row) == SumSeq(row, Len(row))

-----------------------------------------------------------------------------
(* estimate_class_priors                                                   *)

RECURSIVE LabelCounts(_, _)
\* The first loop over the first n labels: class_priors[label] += 1.
LabelCounts(labels, n) ==
    IF n = 0 THEN EmptyDict
    ELSE LET m == LabelCounts(labels, n - 1)
             l == labels[n]
         IN  IF l \in DOMAIN m THEN [m EXCEPT ![l] = @ + 1]
             ELSE [k \in DOMAIN m \cup {l} |-> IF k = l THEN 1 ELSE m[k]]

\* The divisor of the priors.
PriorDivisorWrong(labels, counts) == Cardinality(DOMAIN counts)
PriorDivisor(labels, counts) == Len(labels)

estimate_class_priors(labels) ==
    LET m == LabelCounts(labels, Len(labels))
    IN  [k \in DOMAIN m |-> Norm(m[k], PriorDivisor(labels, m))]

-----------------------------------------------------------------------------
(* estimate_conditional_probabilities                                      *)

RECURSIVE TotalWordsForClass(_, _, _)
\* The first loop over the first n examples.
TotalWordsForClass(features, labels, n) ==
    IF n = 0 THEN EmptyDict
    ELSE LET m == TotalWordsForClass(features, labels, n - 1)
             l == labels[n]
             s == RowSum(features[n])
         IN  IF l \notin DOMAIN m
             THEN [k \in DOMAIN m \cup {l} |-> IF k = l THEN s ELSE m[k]]
             ELSE [m EXCEPT ![l] = @ + s]

\* self.vocab_size*delta + total_words_for_class[label]
Denominator(vocab, delta, total) == vocab * delta + total

\* The contribution of the first example met for a class.
FirstTermNoSmoothing(row, delta, denom) ==
    [j \in 1..Len(row) |-> Norm(row[j], denom)]
FirstTerm(row, delta, denom) ==
    [j \in 1..Len(row) |-> Norm(row[j] + delta, denom)]

\* The contribution of every later example of the class.
LaterTermSmoothed(acc, row, delta, denom) ==
    [j \in 1..Len(row) |-> RatAdd(acc[j], Norm(row[j] + delta, denom))]
LaterTerm(acc, row, delta, denom) ==
    [j \in 1..Len(row) |-> RatAdd(acc[j], Norm(row[j], denom))]

RECURSIVE ClassWordCounts(_, _, _, _, _, _)
\* The second loop over the first n examples.
ClassWordCounts(features, labels, delta, vocab, totals, n) ==
    IF n = 0 THEN EmptyDict
    ELSE LET m == ClassWordCounts(features, labels, delta, vocab, totals, n - 1)
             l == labels[n]
             d == Denominator(vocab, delta, totals[l])
         IN  IF l \notin DOMAIN m
             THEN [k \in DOMAIN m \cup {l} |->
                     IF k = l THEN FirstTerm(features[n], delta, d) ELSE m[k]]
             ELSE [m EXCEPT ![l] = LaterTerm(@, features[n], delta, d)]

\* How a call of estimate_conditional_probabilities ends, given the
\* vocab_size field (None or Some(n)) at the time of the call.
CondOutcome(vocab, features, labels) ==
    IF Len(features) < Len(labels) THEN "IndexError"
    ELSE IF Len(labels) > 0 /\ ~vocab.set THEN "TypeError"
    ELSE "ok"

\* Its return value when it returns.
estimate_conditional_probabilities(vocab, features, labels, delta) ==
    ClassWordCounts(features, labels, delta, vocab,
                    TotalWordsForClass(features, labels, Len(labels)),
                    Len(labels))

-----------------------------------------------------------------------------
(* estimate_class_posteriors, predict, predict_proba                       *)

RECURSIVE SortedLabels(_)
\* The keys of sorted(self.class_priors.items()), ascending.
SortedLabels(S) ==
    IF S = {} THEN <<>>
    ELSE LET m == CHOOSE x \in S : \A y \in S : x <= y
         IN  <<m>> \o SortedLabels(S \ {m})

\* The raise of estimate_class_posteriors: either field is None.
IsNone(priors, cond) == ~cond.set \/ ~priors.set

\* The raise of predict and predict_proba: either field is None or empty.
IsFalsy(priors, cond) ==
    \/ ~priors.set
    \/ DOMAIN priors.val = {}
    \/ ~cond.set
    \/ DOMAIN cond.val = {}

\* Whether vectors of these two lengths multiply elementwise (broadcasting).
Broadcasts(n, m) == n = m \/ n = 1 \/ m = 1

Width(n, m) == IF n = 1 THEN m ELSE n

At(v, j) == IF Len(v) = 1 THEN v[1] ELSE v[j]

\* log(c) * f, as an antilog.
AntiLogTerm(c, f) ==
    IF c = NaN THEN NaN
    ELSE IF c[1] = 0 \/ c = Inf THEN (IF f = 0 THEN NaN ELSE c)
    ELSE RatPow(c, f)

RECURSIVE SumLogTerms(_, _, _)
\* torch.sum(torch.log(c) * feature) over the first n components.
SumLogTerms(c, feature, n) ==
    IF n = 0 THEN <<1, 1>>
    ELSE RatMul(SumLogTerms(c, feature, n - 1),
                AntiLogTerm(At(c, n), At(feature, n)))

\* log(class_prior) + torch.sum(torch.log(c) * feature)
LogProb(prior, c, feature) ==
    RatMul(prior, SumLogTerms(c, feature, Width(Len(c), Len(feature))))

\* How the body of estimate_class_posteriors ends once its check passed:
\* the first class, in ascending order, whose conditional vector is missing
\* or does not multiply with the feature decides.
LoopOutcome(priors, cond, feature) ==
    LET order == SortedLabels(DOMAIN priors)
        bad == {i \in 1..Len(order) :
                  \/ order[i] \notin DOMAIN cond
                  \/ ~Broadcasts(Len(cond[order[i]]), Len(feature))}
    IN  IF bad = {} THEN "ok"
        ELSE LET i == CHOOSE x \in bad : \A y \in bad : x <= y
             IN  IF order[i] \notin DOMAIN cond THEN "KeyError"
                 ELSE "RuntimeError"

PosteriorsOutcomeUnchecked(priors, cond, feature) ==
    IF ~priors.set \/ ~cond.set THEN "AttributeError"
    ELSE LoopOutcome(priors.val, cond.val, feature)
PosteriorsOutcome(priors, cond, feature) ==
    IF IsNone(priors, cond) THEN "NotTrained"
    ELSE LoopOutcome(priors.val, cond.val, feature)

\* The vector estimate_class_posteriors returns: entry i belongs to the
\* i-th smallest key of the priors.
estimate_class_posteriors(priors, cond, feature) ==
    LET order == SortedLabels(DOMAIN priors)
    IN  [i \in 1..Len(order) |->
           LogProb(priors[order[i]], cond[order[i]], feature)]

\* a > b as torch's arg-max compares: NaN is above everything.
Greater(a, b) ==
    IF a = NaN THEN b # NaN
    ELSE IF b = NaN THEN FALSE
    ELSE RatLess(b, a)

\* torch.argmax(v): the 0-based index of the first greatest entry.
ArgMax(v) ==
    (CHOOSE i \in 1..Len(v) :
        /\ \A j \in 1..Len(v) : ~Greater(v[j], v[i])
        /\ \A j \in 1..(i - 1) : Greater(v[i], v[j])) - 1

RECURSIVE SumRat(_, _)
SumRat(v, n) == IF n = 0 THEN <<0, 1>> ELSE RatAdd(SumRat(v, n - 1), v[n])

\* torch.softmax(v, axis=0)
Softmax(v) ==
    LET s == SumRat(v, Len(v))
    IN  IF s = NaN \/ s = Inf \/ s[1] = 0
        THEN [i \in 1..Len(v) |-> NaN]
        ELSE [i \in 1..Len(v) |-> RatMul(v[i], <<s[2], s[1]>>)]

PredictOutcome(priors, cond, feature) ==
    IF IsFalsy(priors, cond) THEN "NotTrained"
    ELSE LoopOutcome(priors.val, cond.val, feature)

\* What predict returns.
predict(priors, cond, feature) ==
    ArgMax(estimate_class_posteriors(priors, cond, feature))

\* What predict_proba returns.
predict_proba(priors, cond, feature) ==
    Softmax(estimate_class_posteriors(priors, cond, feature))

-----------------------------------------------------------------------------
(* The classifier: its fields after __init__, and fit.                     *)

Fresh == [class_priors |-> None,
          conditional_probabilities |-> None,
          vocab_size |-> None]

Current == [class_priors |-> class_priors,
            conditional_probabilities |-> conditional_probabilities,
            vocab_size |-> vocab_size]

\* The fields a call of fit leaves behind, returning or raising.
FitMerging(old, features, labels, delta) ==
    LET p == estimate_class_priors(labels)
        v == Some(Len(labels))
        c == estimate_conditional_probabilities(
                 Len(labels), features, labels, delta)
        keep == IF old.class_priors.set THEN old.class_priors.val
                ELSE EmptyDict
    IN  [class_priors |->
            Some([k \in DOMAIN p \cup DOMAIN keep |->
                    IF k \in DOMAIN p THEN p[k] ELSE keep[k]]),
         vocab_size |-> v,
         conditional_probabilities |->
            IF CondOutcome(v, features, labels) = "ok" THEN Some(c)
            ELSE old.conditional_probabilities]
Fit(old, features, labels, delta) ==
    LET v == Some(Len(labels))
    IN  [class_priors |-> Some(estimate_class_priors(labels)),
         vocab_size |-> v,
         conditional_probabilities |->
            IF CondOutcome(v, features, labels) = "ok"
            THEN Some(estimate_conditional_probabilities(
                          Len(labels), features, labels, delta))
            ELSE old.conditional_probabilities]

Classes(m) == IF m.set THEN DOMAIN m.val ELSE {}

FitCall(features, labels, delta) ==
    LET new == Fit(Current, features, labels, delta)
    IN  /\ class_priors' = new.class_priors
        /\ vocab_size' = new.vocab_size
        /\ conditional_probabilities' = new.conditional_probabilities
        /\ last' = [op |-> "fit",
                    outcome |-> CondOutcome(Some(Len(labels)), features, labels),
                    features |-> features, labels |-> labels, delta |-> delta,
                    old_classes |-> Classes(class_priors)
                                    \cup Classes(conditional_probabilities)]

Unchanged == UNCHANGED <<class_priors, conditional_probabilities, vocab_size>>

EstimateClassPriorsCallStoring(labels) ==
    /\ class_priors' = Some(estimate_class_priors(labels))
    /\ UNCHANGED <<conditional_probabilities, vocab_size>>
    /\ last' = [op |-> "estimate_class_priors", outcome |-> "ok",
                labels |-> labels, result |-> estimate_class_priors(labels)]
EstimateClassPriorsCall(labels) ==
    /\ Unchanged
    /\ last' = [op |-> "estimate_class_priors", outcome |-> "ok",
                labels |-> labels, result |-> estimate_class_priors(labels)]

EstimateConditionalProbabilitiesCall(features, labels, delta) ==
    LET out == CondOutcome(vocab_size, features, labels)
    IN  /\ Unchanged
        /\ last' = [op |-> "estimate_conditional_probabilities",
                    outcome |-> out,
                    features |-> features, labels |-> labels, delta |-> delta,
                    result |->
                       IF out # "ok" THEN <<>>
                       ELSE IF labels = <<>> THEN EmptyDict
                       ELSE estimate_conditional_probabilities(
                                vocab_size.val, features, labels, delta)]

EstimateClassPosteriorsCall(feature) ==
    LET out == PosteriorsOutcome(class_priors, conditional_probabilities, feature)
    IN  /\ Unchanged
        /\ last' = [op |-> "estimate_class_posteriors", outcome |-> out,
                    feature |-> feature,
                    result |->
                       IF out # "ok" THEN <<>>
                       ELSE estimate_class_posteriors(
                                class_priors.val,
                                conditional_probabilities.val, feature)]

PredictCall(feature) ==
    LET out == PredictOutcome(class_priors, conditional_probabilities, feature)
    IN  /\ Unchanged
        /\ last' = [op |-> "predict", outcome |-> out, feature |-> feature,
                    result |->
                       IF out # "ok" THEN -1
                       ELSE predict(class_priors.val,
                                    conditional_probabilities.val, feature)]

PredictProbaCall(feature) ==
    LET out == PredictOutcome(class_priors, conditional_probabilities, feature)
    IN  /\ Unchanged
        /\ last' = [op |-> "predict_proba", outcome |-> out,
                    feature |-> feature,
                    result |->
                       IF out # "ok" THEN <<>>
                       ELSE predict_proba(class_priors.val,
                                          conditional_probabilities.val,
                                          feature)]

-----------------------------------------------------------------------------
(* Inputs.                                                                 *)

\* Bag-of-words vectors over a two-word vocabulary.  The documents of the
\* lifecycle hold at most one word.
EstRows == Counts \X Counts
Rows == {r \in EstRows : r[1] + r[2] <= 1}

SeqsUpTo(S, n) == UNION {[1..k -> S] : k \in 0..n}

\* Feature matrices with one row per label, or one row short.
Shaped(rows, labels, n) ==
    {t \in [features : SeqsUpTo(rows, n), labels : SeqsUpTo(labels, n)] :
        Len(t.features) \in {Len(t.labels), Len(t.labels) - 1}}

\* Two training sets of two examples: two classes, and one class.
TwoClasses == [features |-> << <<1, 0>>, <<0, 1>> >>, labels |-> <<0, 2>>]
OneClass == [features |-> << <<1, 0>>, <<0, 1>> >>, labels |-> <<2, 2>>]

TrainingSets == Shaped(Rows, ClassLabels, MaxExamples) \cup {TwoClasses, OneClass}

\* The training set of the worked example: four examples, three words.
Scenario ==
    [features |-> << <<1, 0, 0>>, <<0, 1, 0>>, <<0, 0, 1>>, <<1, 1, 0>> >>,
     labels |-> <<0, 0, 1, 1>>]

EstTrainingSets == Shaped(EstRows, EstClassLabels, EstMaxExamples) \cup {Scenario}

\* The direct calls of estimate_conditional_probabilities pass at most one
\* example.
ProbeSets == {t \in TrainingSets : Len(t.labels) <= 1}

\* The label vectors of the training sets.
Labelings == {t.labels : t \in TrainingSets}
EstLabelings == {t.labels : t \in EstTrainingSets}

Init ==
    /\ class_priors = None
    /\ conditional_probabilities = None
    /\ vocab_size = None
    /\ last = [op |-> "init", outcome |-> "ok"]

DoFit == \E t \in TrainingSets, delta \in Deltas :
             FitCall(t.features, t.labels, delta)
DoEstimateClassPriors ==
    \E labels \in Labelings : EstimateClassPriorsCall(labels)
DoEstimateConditionalProbabilities ==
    \E t \in ProbeSets, delta \in Deltas :
        EstimateConditionalProbabilitiesCall(t.features, t.labels, delta)
DoEstimateClassPosteriors == \E f \in Rows : EstimateClassPosteriorsCall(f)
DoPredict == \E f \in Rows : PredictCall(f)
DoPredictProba == \E f \in Rows : PredictProbaCall(f)

Next ==
    \/ DoFit
    \/ DoEstimateClassPriors
    \/ DoEstimateConditionalProbabilities
    \/ DoEstimateClassPosteriors
    \/ DoPredict
    \/ DoPredictProba

\* The lifecycle of one classifier: any calls in any order.
Spec == Init /\ [][Next]_vars

\* The estimators on their own: one call on a freshly constructed classifier.
EstFit ==
    /\ last.op = "init"
    /\ \E t \in EstTrainingSets, delta \in EstDeltas :
           FitCall(t.features, t.labels, delta)
EstPriors ==
    /\ last.op = "init"
    /\ \E labels \in EstLabelings : EstimateClassPriorsCall(labels)

NextEst == EstFit \/ EstPriors

SpecEst == Init /\ [][NextEst]_vars

-----------------------------------------------------------------------------
(* Properties.                                                             *)

InferenceOps == {"estimate_class_posteriors", "predict", "predict_proba"}

Returned(op) == last.op = op /\ last.outcome = "ok"

RECURSIVE SumOver(_, _)
\* The sum of f[i] over the indices i of the finite set S.
SumOver(S, f) ==
    IF S = {} THEN 0
    ELSE LET i == CHOOSE x \in S : TRUE IN f[i] + SumOver(S \ {i}, f)

\* The examples of class c in a label vector.
ExamplesOf(labels, c) == {i \in 1..Len(labels) : labels[i] = c}

\* C1: predict returns the class label at the arg-max index of the
\* log-posteriors, index i standing for the i-th smallest observed label,
\* and not the index itself.
C1_PredictReturnsLabel ==
    Returned("predict") =>
        LET order == SortedLabels(DOMAIN class_priors.val)
            post == estimate_class_posteriors(
                        class_priors.val, conditional_probabilities.val,
                        last.feature)
        IN  last.result = order[ArgMax(post) + 1]

\* C2: on a freshly constructed classifier every inference operation ends
\* in the not-trained error, for every feature vector.
C2_FreshRaisesNotTrained ==
    (Current = Fresh /\ last.op \in InferenceOps) =>
        last.outcome = "NotTrained"

C2_Witness ==
    /\ Current = Fresh
    /\ last.op = "estimate_class_posteriors"
    /\ last.outcome = "NotTrained"
    /\ last.feature = <<0, 1>>

\* C3: whenever the priors or the conditional probabilities are unset or
\* empty, every inference operation raises the not-trained error.
C3_UnsetOrEmptyRaisesNotTrained ==
    (last.op \in InferenceOps
        /\ IsFalsy(class_priors, conditional_probabilities)) =>
        last.outcome = "NotTrained"

\* C4: after fit on the worked example with delta = 1 the priors are
\* {0: 1/2, 1: 1/2}, the smoothing denominator of each class is 5 and the
\* conditional vector of class 0 is [2/5, 2/5, 1/5].
C4_ScenarioValues ==
    (Returned("fit") /\ last.features = Scenario.features
        /\ last.labels = Scenario.labels /\ last.delta = 1) =>
        /\ class_priors.val = [c \in {0, 1} |-> <<1, 2>>]
        /\ \A c \in {0, 1} :
              Denominator(vocab_size.val, last.delta,
                  TotalWordsForClass(last.features, last.labels,
                                     Len(last.labels))[c]) = 5
        /\ conditional_probabilities.val[0] = << <<2, 5>>, <<2, 5>>, <<1, 5>> >>

\* C5: for a non-empty label vector estimate_class_priors returns a mapping
\* whose keys are the distinct labels of the vector and whose value for c is
\* (entries equal to c) / (length): each value is in (0, 1] and they sum to 1.
C5_PriorsAreFrequencies ==
    (Returned("estimate_class_priors") /\ last.labels # <<>>) =>
        LET r == last.result
            n == Len(last.labels)
            order == SortedLabels(DOMAIN r)
        IN  /\ DOMAIN r = {last.labels[i] : i \in 1..n}
            /\ \A c \in DOMAIN r :
                  /\ r[c] = Norm(Cardinality(ExamplesOf(last.labels, c)), n)
                  /\ r[c][1] > 0
                  /\ r[c][1] <= r[c][2]
            /\ SumRat([i \in 1..Len(order) |-> r[order[i]]], Len(order))
                   = <<1, 1>>

C5_Witness ==
    /\ Returned("estimate_class_priors")
    /\ Len(last.labels) = 3
    /\ last.result = [c \in {0, 3} |-> IF c = 0 THEN <<1, 3>> ELSE <<2, 3>>]

\* C6: after fit with delta > 0 every component of every stored
\* conditional-probability vector is strictly greater than 0, also for the
\* words that occur in no example of the class.
C6_ConditionalsPositive ==
    (Returned("fit") /\ last.delta > 0) =>
        \A c \in DOMAIN conditional_probabilities.val :
            \A j \in DOMAIN conditional_probabilities.val[c] :
                LET x == conditional_probabilities.val[c][j]
                IN  x[1] > 0 /\ x[2] > 0

C6_Witness ==
    /\ Returned("fit")
    /\ last.delta > 0
    /\ \E c \in DOMAIN conditional_probabilities.val :
          /\ Cardinality(ExamplesOf(last.labels, c)) = 2
          /\ \A i \in ExamplesOf(last.labels, c) : last.features[i][2] = 0
          /\ \E i \in ExamplesOf(last.labels, c) : last.features[i][1] > 0

\* C7: after a fit call that returned, the stored priors, conditional
\* probabilities and vocabulary size are those of a freshly constructed
\* classifier on which only that call was made, whatever was called before.
C7_FitOverwrites ==
    Returned("fit") =>
        Current = Fit(Fresh, last.features, last.labels, last.delta)

C7_Witness ==
    /\ Returned("fit")
    /\ last.labels = <<0>>
    /\ 2 \in last.old_classes
    /\ DOMAIN class_priors.val = {0}
    /\ DOMAIN conditional_probabilities.val = {0}

\* C8: whenever both mappings are set, the conditional probabilities are
\* defined for exactly the class labels of the priors, also after a fit
\* call that raised.
C8_SameClasses ==
    (class_priors.set /\ conditional_probabilities.set) =>
        DOMAIN class_priors.val = DOMAIN conditional_probabilities.val

\* C9: every operation other than fit leaves the stored priors, conditional
\* probabilities and vocabulary size unchanged, and an inference call
\* repeated with no call in between ends the same way with the same result.
C9_OnlyFitMutates ==
    [][last'.op # "fit" =>
          /\ Unchanged
          /\ (last.op \in InferenceOps /\ last'.op = last.op
                 /\ last'.feature = last.feature) => last' = last]_vars

C9_Witness ==
    /\ Returned("predict_proba")
    /\ DOMAIN class_priors.val = {0, 2}
    /\ last.result = << <<1, 2>>, <<1, 2>> >>

\* The rows and labels of a training set in the order p[1], p[2], ...
Permuted(xs, p) == [i \in 1..Len(xs) |-> xs[p[i]]]

\* C10: the result of fit does not depend on the order of the training
\* examples, and the conditional vector of class c is
\* (sum of the rows of c + delta) / (vocab_size*delta + total_words(c)).
C10_OrderIndependent ==
    Returned("fit") =>
        LET n == Len(last.labels)
            rows == [i \in 1..n |-> last.features[i]]
        IN  /\ \A p \in Permutations(1..n) :
                  Fit(Fresh, Permuted(rows, p), Permuted(last.labels, p),
                      last.delta) = Current
            /\ \A c \in DOMAIN conditional_probabilities.val :
                  LET S == ExamplesOf(last.labels, c)
                      total == SumOver(S, [i \in S |-> RowSum(rows[i])])
                  IN  \A j \in DOMAIN conditional_probabilities.val[c] :
                         conditional_probabilities.val[c][j] =
                             Norm(SumOver(S, [i \in S |-> rows[i][j]])
                                      + last.delta,
                                  vocab_size.val * last.delta + total)

C10_Witness ==
    /\ Returned("fit")
    /\ last.delta = 2
    /\ last.labels = <<1, 3, 1>>
    /\ last.features[1] # last.features[3]
    /\ RowSum(last.features[3]) > 0

=============================================================================
